---------------------------- MODULE Spec2Model ----------------------------
(***************************************************************************)
(* A model of src/converters.py: the OCR word-grid reconstruction of       *)
(* _convert_image, the statement transaction parser of _convert_pdf and    *)
(* the keyword classifier _apply_rules.                                    *)
(*                                                                         *)
(* Python strings are modelled as sequences of one-character strings, so   *)
(* that regular-expression matching, strip, split, replace, upper and      *)
(* isdigit are computed character by character.                            *)
(***************************************************************************)
EXTENDS Integers, Sequences, FiniteSets, TLC

VARIABLES
    pc,            \* position inside the running conversion
    outcome,       \* "none" while running, "ok", or the exception raised
    \* ---- _convert_pdf
    input_name,    \* os.path.basename(input_path)
    pdf_pages,     \* page.extract_text() of every page, in page order
    page_i,        \* index of the next page of the read loop
    all_text,      \* texts kept by the read loop (with the page they came from)
    start_year,    \* 0 stands for None
    end_year,      \* 0 stands for None
    rules_file,    \* what rules.json holds
    rules,         \* the list _load_rules() returned
    text_i,        \* index into all_text of the parse loop
    line_i,        \* index into text.split('\n') of the parse loop
    transactions,  \* rows appended so far
    \* ---- _convert_image
    ocr_words,     \* the words pytesseract returned, in its order
    words,         \* the list `words` (sorted in place)
    word_i,        \* index of the next word of the clustering loop
    rows_by_y,     \* list of [avg_y, [words]]
    col_bounds,    \* list of (col_left, col_right)
    table_rows,    \* list of lists of cell strings
    df_columns,    \* columns of the DataFrame (<<>> when positional)
    df_has_header, \* TRUE when the first row was promoted to the columns
    df_rows,       \* data rows of the DataFrame
    \* ---- _apply_rules called on its own
    description,   \* the description handed to _apply_rules
    rule_out       \* what _apply_rules returned or raised

vars == <<pc, outcome, input_name, pdf_pages, page_i, all_text, start_year,
          end_year, rules_file, rules, text_i, line_i, transactions,
          ocr_words, words, word_i, rows_by_y, col_bounds, table_rows,
          df_columns, df_has_header, df_rows, description, rule_out>>

pdfVars == <<input_name, pdf_pages, page_i, all_text, start_year, end_year,
             rules_file, rules, text_i, line_i, transactions>>

imageVars == <<ocr_words, words, word_i, rows_by_y, col_bounds, table_rows,
               df_columns, df_has_header, df_rows>>

ruleVars == <<description, rule_out>>

-----------------------------------------------------------------------------
(* Bounds of the model *)

MaxPages == 2       \* pages of a document
MaxDocLines == 3    \* text lines of a document, all pages together
MaxWords == 3       \* OCR words of an image
MaxRules == 2       \* rules of a rule list handed to _apply_rules
ProbeMax == 120     \* largest left coordinate probed against the column bounds

-----------------------------------------------------------------------------
(* Characters and string primitives *)

Digits == {"0", "1", "2", "3", "4", "5", "6", "7", "8", "9"}

DigitSeq == <<"0", "1", "2", "3", "4", "5", "6", "7", "8", "9">>

LowerSeq == <<"a", "b", "c", "d", "e", "f", "g", "h", "i", "j", "k", "l", "m",
              "n", "o", "p", "q", "r", "s", "t", "u", "v", "w", "x", "y", "z">>

UpperSeq == <<"A", "B", "C", "D", "E", "F", "G", "H", "I", "J", "K", "L", "M",
              "N", "O", "P", "Q", "R", "S", "T", "U", "V", "W", "X", "Y", "Z">>

\* the characters \s matches inside one line
Spaces == {" ", "\t"}

\* the characters \w matches
WordChars == Digits \cup {LowerSeq[i] : i \in 1..26}
                    \cup {UpperSeq[i] : i \in 1..26} \cup {"_"}

\* the sequences of at most n elements of S
SeqsUpTo(S, n) == UNION {[1..k -> S] : k \in 0..n}

Min(S) == CHOOSE x \in S : \A y \in S : x <= y

Max(S) == CHOOSE x \in S : \A y \in S : x >= y

\* index of the first character at or after p that is not in cls (Len(s)+1 if none)
RunEnd(s, p, cls) == Min({q \in p..(Len(s) + 1) : q > Len(s) \/ s[q] \notin cls})

\* str.strip()
strip(s) ==
    LET keep == {i \in 1..Len(s) : s[i] \notin Spaces}
    IN IF keep = {} THEN <<>> ELSE SubSeq(s, Min(keep), Max(keep))

\* str.upper() of one character
UpperChar(c) ==
    IF \E i \in 1..26 : LowerSeq[i] = c
    THEN UpperSeq[CHOOSE i \in 1..26 : LowerSeq[i] = c]
    ELSE c

\* str.upper()
upper(s) == [i \in 1..Len(s) |-> UpperChar(s[i])]

\* `needle in hay` for strings
Contains(hay, needle) ==
    \E off \in 0..(Len(hay) - Len(needle)) :
        \A j \in 1..Len(needle) : hay[off + j] = needle[j]

\* str.replace(ch, "") for a one-character ch
RECURSIVE remove(_, _)
remove(s, ch) ==
    IF s = <<>> THEN <<>>
    ELSE IF Head(s) = ch THEN remove(Tail(s), ch)
    ELSE <<Head(s)>> \o remove(Tail(s), ch)

\* str.isdigit(): non-empty and every character a digit
isdigit(s) == s # <<>> /\ \A i \in 1..Len(s) : s[i] \in Digits

\* str.split(sep) for a one-character sep
RECURSIVE split(_, _)
split(s, sep) ==
    IF \A i \in 1..Len(s) : s[i] # sep THEN <<s>>
    ELSE LET k == Min({i \in 1..Len(s) : s[i] = sep})
         IN <<SubSeq(s, 1, k - 1)>> \o split(SubSeq(s, k + 1, Len(s)), sep)

\* int() of a string of decimal digits
DigitVal(c) == (CHOOSE i \in 1..10 : DigitSeq[i] = c) - 1

RECURSIVE int(_)
int(s) ==
    IF s = <<>> THEN 0
    ELSE 10 * int(SubSeq(s, 1, Len(s) - 1)) + DigitVal(s[Len(s)])

\* f"{n:02d}"
fmt02d(n) ==
    IF n < 10 THEN <<"0", DigitSeq[n + 1]>>
    ELSE <<DigitSeq[(n \div 10) + 1], DigitSeq[(n % 10) + 1]>>

\* str(n) for a four-digit year
fmtYear(n) ==
    <<DigitSeq[(n \div 1000) + 1], DigitSeq[((n \div 100) % 10) + 1],
      DigitSeq[((n \div 10) % 10) + 1], DigitSeq[(n % 10) + 1]>>

-----------------------------------------------------------------------------
(* txn_re: ^(\d{2}/\d{2})\s+(?:(\d{2}/\d{2})\s+)?(.+?)\s+(-?\$[\d,]+\.\d{2})\b *)

NoMatch == [ok |-> FALSE, g1 |-> <<>>, g2 |-> <<>>, g3 |-> <<>>, g4 |-> <<>>,
            end |-> 0]

\* \d{2}/\d{2} at position p
DateAt(s, p) ==
    /\ p >= 1
    /\ p + 4 <= Len(s)
    /\ s[p] \in Digits /\ s[p + 1] \in Digits
    /\ s[p + 2] = "/"
    /\ s[p + 3] \in Digits /\ s[p + 4] \in Digits

\* UnsignedAmountEnd with the trailing \b left out of the pattern
UnsignedAmountEnd_NoBoundary(s, p) ==
    IF p <= Len(s) /\ s[p] = "$"
    THEN LET e == RunEnd(s, p + 1, Digits \cup {","})
         IN IF /\ e > p + 1
               /\ e + 2 <= Len(s)
               /\ s[e] = "."
               /\ s[e + 1] \in Digits /\ s[e + 2] \in Digits
            THEN e + 2
            ELSE 0
    ELSE 0

\* \$[\d,]+\.\d{2}\b at position p: index of its last character, 0 when it fails.
\* The run [\d,]+ must stop at the '.', so it has one way to match.
UnsignedAmountEnd(s, p) ==
    IF p <= Len(s) /\ s[p] = "$"
    THEN LET e == RunEnd(s, p + 1, Digits \cup {","})
         IN IF /\ e > p + 1
               /\ e + 2 <= Len(s)
               /\ s[e] = "."
               /\ s[e + 1] \in Digits /\ s[e + 2] \in Digits
               /\ (e + 3 > Len(s) \/ s[e + 3] \notin WordChars)
            THEN e + 2
            ELSE 0
    ELSE 0

\* (-?\$[\d,]+\.\d{2})\b at position p: the optional '-' is taken when present
AmountEnd(s, p) ==
    IF p <= Len(s) /\ s[p] = "-"
    THEN UnsignedAmountEnd(s, p + 1)
    ELSE UnsignedAmountEnd(s, p)

MinOrZero(S) == IF S = {} THEN 0 ELSE Min(S)

\* (.+?)\s+(amount)\b with the description starting at p: the lazy group takes
\* the shortest description after which whitespace and an amount follow.
\* Gives the index just after the description, 0 when nothing matches.
DescEnd(s, p) ==
    IF p < 1 THEN 0
    ELSE MinOrZero({q \in (p + 1)..Len(s) :
                       /\ s[q] \in Spaces
                       /\ AmountEnd(s, RunEnd(s, q, Spaces)) # 0})

\* the groups of a match: description s[d..q-1], amount s[a..e]
GroupsAt(s, post, d, q, a, e) ==
    [ok |-> TRUE,
     g1 |-> SubSeq(s, 1, 5),
     g2 |-> post,
     g3 |-> SubSeq(s, d, q - 1),
     g4 |-> SubSeq(s, a, e),
     end |-> e]

GroupsFrom(s, post, d, q, a) == GroupsAt(s, post, d, q, a, AmountEnd(s, a))

\* the groups of the match whose description starts at d
Groups(s, post, d) ==
    GroupsFrom(s, post, d, DescEnd(s, d), RunEnd(s, DescEnd(s, d), Spaces))

\* withPost: the description starts that succeed after a post date at a
PostOrNot(s, a, withPost) ==
    IF withPost # {} THEN Groups(s, SubSeq(s, a, a + 4), Max(withPost))
    ELSE IF DescEnd(s, a) # 0 THEN Groups(s, <<>>, a)
    ELSE NoMatch

\* what follows the first \s+ when that \s+ ended just before position a:
\* first with the post date (its \s+ greedy, giving characters back one by
\* one), then without it.
AfterDate(s, a) ==
    PostOrNot(s, a,
              IF DateAt(s, a)
              THEN {d \in (a + 6)..RunEnd(s, a + 5, Spaces) : DescEnd(s, d) # 0}
              ELSE {})

FirstGood(s, good) == IF good = {} THEN NoMatch ELSE AfterDate(s, Max(good))

\* txn_re.match(s): the first success in the order a backtracking matcher
\* tries (greedy \s+ longest first, optional group present first, lazy
\* description shortest first)
txn_match(s) ==
    IF ~DateAt(s, 1) THEN NoMatch
    ELSE FirstGood(s, {a \in 7..RunEnd(s, 6, Spaces) : AfterDate(s, a).ok})

-----------------------------------------------------------------------------
(* billing_re: Billing Period:\s*(\d{2}/\d{2}/(\d{2}))-(\d{2}/\d{2}/(\d{2})) *)

BillingLabel == <<"B", "i", "l", "l", "i", "n", "g", " ", "P", "e", "r", "i",
                  "o", "d", ":">>

\* \d{2}/\d{2}/\d{2} at position p
LongDateAt(s, p) ==
    /\ DateAt(s, p)
    /\ p + 7 <= Len(s)
    /\ s[p + 5] = "/"
    /\ s[p + 6] \in Digits /\ s[p + 7] \in Digits

\* the pattern matched with its label starting at p
BillingAt(s, p) ==
    /\ p + Len(BillingLabel) - 1 <= Len(s)
    /\ SubSeq(s, p, p + Len(BillingLabel) - 1) = BillingLabel
    /\ LET d == RunEnd(s, p + Len(BillingLabel), Spaces \cup {"\n"})
       IN /\ LongDateAt(s, d)
          /\ d + 8 <= Len(s)
          /\ s[d + 8] = "-"
          /\ LongDateAt(s, d + 9)

\* billing_re.search(text): <<int(group 2), int(group 4)>> of the leftmost
\* match, <<>> when there is none
billing_search(s) ==
    LET at == {p \in 1..Len(s) : BillingAt(s, p)}
    IN IF at = {} THEN <<>>
       ELSE LET p == Min(at)
                d == RunEnd(s, p + Len(BillingLabel), Spaces \cup {"\n"})
            IN <<int(SubSeq(s, d + 6, d + 7)), int(SubSeq(s, d + 15, d + 16))>>

\* re.search(r'(20\d{2})', name): int(group 1) of the leftmost match, 0 if none
name_year(s) ==
    LET at == {p \in 1..(Len(s) - 3) :
                  /\ s[p] = "2" /\ s[p + 1] = "0"
                  /\ s[p + 2] \in Digits /\ s[p + 3] \in Digits}
    IN IF at = {} THEN 0 ELSE int(SubSeq(s, Min(at), Min(at) + 3))

-----------------------------------------------------------------------------
(* Categorisation rules *)

\* A rule of rules.json: `has` names the keys the JSON object holds.
RuleKeys == {"keywords", "type", "hl_exp_category", "exp_category"}

Rule(kw, t, hl, ex) ==
    [has |-> RuleKeys, keywords |-> kw, type |-> t, hl_exp_category |-> hl,
     exp_category |-> ex]

Returned(t, hl, ex) == [exc |-> "none", val |-> <<t, hl, ex>>]

Raised(e) == [exc |-> e, val |-> <<"", "", "">>]

\* the loop `for rule in rules` from rule i on
RECURSIVE apply_from(_, _, _)
apply_from(desc_upper, rs, i) ==
    IF i > Len(rs) THEN Returned("", "", "")
    ELSE LET rule == rs[i]
         IN IF "keywords" \notin rule.has THEN Raised("KeyError")
            ELSE IF \E k \in 1..Len(rule.keywords) :
                        Contains(desc_upper, upper(rule.keywords[k]))
            THEN IF {"type", "hl_exp_category", "exp_category"} \subseteq rule.has
                 THEN Returned(rule.type, rule.hl_exp_category, rule.exp_category)
                 ELSE Raised("KeyError")
            ELSE apply_from(desc_upper, rs, i + 1)

\* apply_rules without upper-casing the description
apply_rules_CaseSensitive(desc, rs) == apply_from(desc, rs, 1)

apply_rules(desc, rs) == apply_from(upper(desc), rs, 1)

\* _load_rules(): a missing or malformed file gives [], a JSON object gives
\* its "rules" list, any other JSON value has no .get
load_rules(file) ==
    CASE file.kind \in {"missing", "malformed"} -> [exc |-> "none", val |-> <<>>]
      [] file.kind = "object" -> [exc |-> "none", val |-> file.rules]
      [] OTHER -> [exc |-> "AttributeError", val |-> <<>>]

-----------------------------------------------------------------------------
(* convert_to_excel *)

\* str.lower() of one character
LowerChar(c) ==
    IF \E i \in 1..26 : UpperSeq[i] = c
    THEN LowerSeq[CHOOSE i \in 1..26 : UpperSeq[i] = c]
    ELSE c

\* os.path.splitext(name)[1].lower(): from the last dot on, when that dot is
\* not the leading character of the name
splitext_lower(name) ==
    LET dots == {i \in 2..Len(name) : name[i] = "."}
    IN IF dots = {} THEN <<>>
       ELSE [i \in 1..(Len(name) - Max(dots) + 1) |->
                LowerChar(name[Max(dots) + i - 1])]

ImageExts == {<<".", "j", "p", "g">>, <<".", "j", "p", "e", "g">>, <<".", "p", "n", "g">>}

PdfExt == <<".", "p", "d", "f">>

-----------------------------------------------------------------------------
(* _convert_pdf: the inputs of the model *)

MONTH_NAMES == <<"", "January", "February", "March", "April", "May", "June",
                 "July", "August", "September", "October", "November",
                 "December">>

\* datetime.now().year
NowYears == {2026}

LineBilling == <<"B", "i", "l", "l", "i", "n", "g", " ", "P", "e", "r", "i", "o", "d", ":", " ", "1", "2", "/", "1", "5", "/", "2", "3", "-", "0", "1", "/", "1", "4", "/", "2", "4">>

LineDec == <<"1", "2", "/", "2", "0", " ", "A", "B", " ", "$", "4", ".", "7", "5">>

LineJan == <<"0", "1", "/", "1", "5", " ", "0", "1", "/", "1", "7", " ", "A", "b", " ", "$", "1", ",", "2", "0", "4", ".", "1", "0">>

LineCredit == <<"0", "1", "/", "1", "5", " ", "A", "B", " ", "-", "$", "4", ".", "7", "5">>

LineOther == <<"N", "a", "m", "e", " ", " ", " ", "A", "m", "o", "u", "n", "t">>

\* the lines documents of several pages are made of
LinePool == {LineBilling, LineDec, LineJan, LineCredit}

SP == <<" ">>

DateToks == {<<"0", "1", "/", "1", "5">>, <<"1", "2", "/", "2", "0">>, <<"1", "3", "/", "0", "1">>}

PostToks == {<<>>, <<"0", "1", "/", "1", "7", " ">>}

DescToks == {<<"A", "b">>, <<"$", "1", ".", "0", "0">>, <<"x", " ", "-", "$", "1", ".", "0", "0">>}

AmountToks == {<<"$", "4", ".", "7", "5">>, <<"-", "$", "4", ".", "7", "5">>, <<"$", "4", ".", "7">>}

TailToks == {<<>>, <<" ", "x">>, <<"9">>, <<" ">>}

\* the lines of one-line documents: a date, an optional post date, a
\* description, an amount and what follows it, each well or badly formed
LineSpace ==
    {d \o SP \o p \o ds \o SP \o a \o t :
        d \in DateToks, p \in PostToks, ds \in DescToks, a \in AmountToks,
        t \in TailToks}

\* "\n".join(lines)
RECURSIVE join(_)
join(lines) ==
    IF lines = <<>> THEN <<>>
    ELSE IF Len(lines) = 1 THEN lines[1]
    ELSE lines[1] \o <<"\n">> \o join(Tail(lines))

\* the ways of cutting n lines into p pages (a page may be left without text)
Cuts(n, p) ==
    {c \in [0..p -> 0..n] :
        /\ c[0] = 0
        /\ c[p] = n
        /\ \A i \in 1..p : c[i - 1] <= c[i]}

\* the page texts of the documents of p pages holding n lines of LinePool
DocsOf(n, p) ==
    IF p = 0 THEN (IF n = 0 THEN {<<>>} ELSE {})
    ELSE {[i \in 1..p |-> join(SubSeq(ls, c[i - 1] + 1, c[i]))] :
             ls \in [1..n -> LinePool], c \in Cuts(n, p)}

MultiDocs == UNION {DocsOf(n, p) : n \in 0..MaxDocLines, p \in 0..MaxPages}

SingleDocs == {<<l>> : l \in LineSpace}

LineBillingSameYear == <<"B", "i", "l", "l", "i", "n", "g", " ", "P", "e", "r", "i", "o", "d", ":", " ", "0", "1", "/", "1", "5", "/", "2", "4", "-", "0", "2", "/", "1", "4", "/", "2", "4">>

MonthToks == {<<"0", "0", "/", "1", "0">>, <<"0", "1", "/", "0", "1">>, <<"0", "9", "/", "3", "0">>, <<"1", "0", "/", "0", "1">>, <<"1", "1", "/", "1", "1">>, <<"1", "2", "/", "3", "1">>}

\* one page: a billing period, then a purchase in each month of MonthToks
YearDocs ==
    {<<join(<<b, d \o <<" ", "A", "B", " ", "$", "4", ".", "7", "5">>>>)>> :
        b \in {LineBilling, LineBillingSameYear}, d \in MonthToks}

RuleShop == Rule(<<<<"A", "B">>>>, "Shop", "Goods", "General")

RuleCoffee == Rule(<<<<"c", "o", "f", "f", "e", "e">>, <<"s", "t", "a", "r", "b", "u", "c", "k", "s">>>>, "Dining", "Food", "Coffee")

RuleNoKeywords == Rule(<<>>, "Never", "Never", "Never")

RuleAny == Rule(<< <<>> >>, "Any", "Any", "Any")

RuleNoType == [RuleShop EXCEPT !.has = RuleKeys \ {"type"}]

RuleNoKeywordsKey == [RuleCoffee EXCEPT !.has = RuleKeys \ {"keywords"}]

RulePool == {RuleShop, RuleCoffee, RuleNoKeywords, RuleAny, RuleNoType,
             RuleNoKeywordsKey}

RulesObject(rs) == [kind |-> "object", rules |-> rs]

GoodRulesFile == RulesObject(<<RuleCoffee, RuleShop>>)

RuleFiles ==
    {[kind |-> "missing", rules |-> <<>>],
     [kind |-> "malformed", rules |-> <<>>],
     GoodRulesFile,
     RulesObject(<<RuleNoType>>),
     RulesObject(<<RuleNoKeywordsKey>>)}

NameWithYear == <<"J", "a", "n", " ", "2", "0", "2", "4", ".", "p", "d", "f">>

NamePlain == <<"s", "t", "m", "t", ".", "P", "D", "F">>

NameUnsupported == <<"n", "o", "t", "e", "s", ".", "t", "x", "t">>

Readable(pages) == [readable |-> TRUE, pages |-> pages]

Unreadable == [readable |-> FALSE, pages |-> <<>>]

\* <<basename, pdf, rules.json>> of the conversions the model runs
PdfInputs ==
    {<<n, Readable(d), GoodRulesFile>> :
        n \in {NameWithYear, NamePlain}, d \in MultiDocs}
    \cup {<<NameWithYear, Readable(d), f>> : d \in SingleDocs, f \in RuleFiles}
    \cup {<<NamePlain, Readable(d), GoodRulesFile>> : d \in YearDocs}
    \cup {<<NameWithYear, Unreadable, GoodRulesFile>>,
          <<NamePlain, Readable(<<LineOther>>), GoodRulesFile>>,
          <<NameUnsupported, Readable(<<LineDec>>), GoodRulesFile>>}

-----------------------------------------------------------------------------
(* _convert_pdf: the body of the parse loop *)

\* is_credit looking for the sign after the currency symbol
is_credit_AfterDollar(amount_str) ==
    Len(amount_str) >= 2 /\ amount_str[1] = "$" /\ amount_str[2] = "-"

\* amount_str.startswith("-")
is_credit(amount_str) == amount_str # <<>> /\ amount_str[1] = "-"

\* resolve_year with the threshold off by one
resolve_year_Above10(month, sy, ey) ==
    IF sy # ey /\ month > 10 THEN sy ELSE ey

\* the year of a transaction of the given month
resolve_year(month, sy, ey) ==
    IF sy # ey /\ month >= 10 THEN sy ELSE ey

\* float(amount_str.replace("$", "").replace(",", "")), in cents
unsigned_cents(t) ==
    100 * int(SubSeq(t, 1, Min({i \in 1..Len(t) : t[i] = "."}) - 1))
    + int(SubSeq(t, Min({i \in 1..Len(t) : t[i] = "."}) + 1, Len(t)))

signed_cents(t) ==
    IF t[1] = "-" THEN 0 - unsigned_cents(Tail(t)) ELSE unsigned_cents(t)

amount_cents(amount_str) ==
    signed_cents(remove(remove(amount_str, "$"), ","))

\* append_row inserting at the front
append_row_Front(txns, row) == <<row>> \o txns

\* transactions.append(row)
append_row(txns, row) == Append(txns, row)

\* the row appended for a match; `src` is not a column of the row: it
\* records the page and line the row was read from
classified_row(m, month, day, year, desc, cls, src) ==
    IF cls.exc # "none" THEN [kind |-> "raise", exc |-> cls.exc]
    ELSE [kind |-> "row",
          row |-> [post_date |-> m.g2,
                   date_str |-> fmt02d(month) \o <<"/">> \o fmt02d(day)
                                \o <<"/">> \o fmtYear(year),
                   month_name |-> MONTH_NAMES[month + 1],
                   day |-> day,
                   year |-> year,
                   description |-> desc,
                   amount |-> amount_cents(m.g4),
                   txn_type |-> cls.val[1],
                   hl_cat |-> cls.val[2],
                   exp_cat |-> cls.val[3],
                   src |-> src]]

\* from the date fields to the row: MONTH_NAMES[month] is read before
\* _apply_rules is called
dated_row(m, month, day, desc, sy, ey, rs, src) ==
    IF month + 1 > Len(MONTH_NAMES) THEN [kind |-> "raise", exc |-> "IndexError"]
    ELSE classified_row(m, month, day, resolve_year(month, sy, ey), desc,
                        apply_rules(desc, rs), src)

\* the body of the loop for the match m of the line
matched_line(m, sy, ey, rs, src) ==
    IF ~m.ok THEN [kind |-> "skip"]
    ELSE IF is_credit(m.g4) THEN [kind |-> "skip"]
    ELSE dated_row(m, int(SubSeq(m.g1, 1, 2)), int(SubSeq(m.g1, 4, 5)),
                   strip(m.g3), sy, ey, rs, src)

\* One line of the parse loop: "skip" for the two `continue`s, "raise" with
\* the exception that escapes, "row" with the row appended.
parse_line(line, sy, ey, rs, src) ==
    matched_line(txn_match(strip(line)), sy, ey, rs, src)

-----------------------------------------------------------------------------
(* The conversion as a state machine *)

InitPdf ==
    /\ pc = "dispatch"
    /\ outcome = "none"
    /\ \E inp \in PdfInputs :
          /\ input_name = inp[1]
          /\ pdf_pages = inp[2]
          /\ rules_file = inp[3]
    /\ page_i = 1
    /\ all_text = <<>>
    /\ start_year = 0
    /\ end_year = 0
    /\ rules = <<>>
    /\ text_i = 1
    /\ line_i = 1
    /\ transactions = <<>>
    /\ ocr_words = <<>> /\ words = <<>> /\ word_i = 1 /\ rows_by_y = <<>>
    /\ col_bounds = <<>> /\ table_rows = <<>> /\ df_columns = <<>>
    /\ df_has_header = FALSE /\ df_rows = <<>>
    /\ description = <<>> /\ rule_out = Returned("", "", "")

\* convert_to_excel: pick the handler by the extension
Dispatch ==
    /\ pc = "dispatch"
    /\ LET ext == splitext_lower(input_name)
       IN IF ext = PdfExt THEN pc' = "read" /\ outcome' = outcome
          ELSE IF ext \in ImageExts THEN pc' = "collect" /\ outcome' = outcome
          ELSE pc' = "done" /\ outcome' = "ConversionError"
    /\ UNCHANGED <<pdfVars, imageVars, ruleVars>>

\* pdfplumber.open or extract_text raises: wrapped by the except clause
ReadFails ==
    /\ pc = "read"
    /\ ~pdf_pages.readable
    /\ pc' = "done"
    /\ outcome' = "ConversionError"
    /\ UNCHANGED <<pdfVars, imageVars, ruleVars>>

\* one turn of `for page in pdf.pages`
ReadPage ==
    /\ pc = "read"
    /\ pdf_pages.readable
    /\ page_i <= Len(pdf_pages.pages)
    /\ LET text == pdf_pages.pages[page_i]
           bm == billing_search(text)
       IN IF text = <<>>
          THEN UNCHANGED <<all_text, start_year, end_year>>
          ELSE /\ all_text' = Append(all_text, [text |-> text, page |-> page_i])
               /\ IF start_year = 0 /\ bm # <<>>
                  THEN start_year' = 2000 + bm[1] /\ end_year' = 2000 + bm[2]
                  ELSE UNCHANGED <<start_year, end_year>>
    /\ page_i' = page_i + 1
    /\ UNCHANGED <<pc, outcome, input_name, pdf_pages, rules_file, rules,
                   text_i, line_i, transactions, imageVars, ruleVars>>

\* after the read loop: no text at all, the year fallback, the rules
EndRead ==
    /\ pc = "read"
    /\ pdf_pages.readable
    /\ page_i > Len(pdf_pages.pages)
    /\ \E now \in NowYears :
          LET fromName == name_year(input_name)
              fallback == IF fromName # 0 THEN fromName ELSE now
              loaded == load_rules(rules_file)
          IN IF all_text = <<>>
             THEN /\ pc' = "done" /\ outcome' = "ConversionError"
                  /\ UNCHANGED <<start_year, end_year, rules>>
             ELSE /\ IF start_year = 0
                     THEN start_year' = fallback /\ end_year' = fallback
                     ELSE UNCHANGED <<start_year, end_year>>
                  /\ IF loaded.exc # "none"
                     THEN pc' = "done" /\ outcome' = loaded.exc /\ rules' = rules
                     ELSE pc' = "parse" /\ outcome' = outcome
                          /\ rules' = loaded.val
    /\ UNCHANGED <<input_name, pdf_pages, page_i, all_text, rules_file, text_i,
                   line_i, transactions, imageVars, ruleVars>>

\* the effect of one line of the parse loop, r being what parse_line gave
\* and n the number of lines of the text
ParseEffect(r, n) ==
    /\ IF r.kind = "raise"
       THEN pc' = "done" /\ outcome' = r.exc
       ELSE pc' = pc /\ outcome' = outcome
    /\ transactions' = IF r.kind = "row"
                       THEN append_row(transactions, r.row)
                       ELSE transactions
    /\ IF line_i < n
       THEN line_i' = line_i + 1 /\ text_i' = text_i
       ELSE line_i' = 1 /\ text_i' = text_i + 1

ParseLines(lines) ==
    ParseEffect(parse_line(lines[line_i], start_year, end_year, rules,
                           <<all_text[text_i].page, line_i>>),
                Len(lines))

\* one turn of `for line in text.split('\n')`, inside `for text in all_text`
ParseLine ==
    /\ pc = "parse"
    /\ text_i <= Len(all_text)
    /\ ParseLines(split(all_text[text_i].text, "\n"))
    /\ UNCHANGED <<input_name, pdf_pages, page_i, all_text, start_year,
                   end_year, rules_file, rules, imageVars, ruleVars>>

\* after the parse loop: no transaction is an error, else the sheet is written
Finish ==
    /\ pc = "parse"
    /\ text_i > Len(all_text)
    /\ pc' = "done"
    /\ outcome' = IF transactions = <<>> THEN "ConversionError" ELSE "ok"
    /\ UNCHANGED <<pdfVars, imageVars, ruleVars>>

\* the columns of the sheet _convert_pdf writes
PdfColumns == <<"Details", "Date", "Month", "Day", "Year", "Description",
                "Amount", "Type", "HL_Exp_Category", "Exp_Category">>

NextPdf == Dispatch \/ ReadFails \/ ReadPage \/ EndRead \/ ParseLine \/ Finish

SpecPdf == InitPdf /\ [][NextPdf]_vars

-----------------------------------------------------------------------------
(* _apply_rules on its own: any description, any ordered rule list *)

Descriptions == {<<"S", "T", "A", "R", "B", "U", "C", "K", "S", " ", "#", "1", "2">>, <<"S", "t", "a", "r", "b", "u", "c", "k", "s", " ", "a", "b">>, <<"U", "N", "K", "N", "O", "W", "N">>, <<"x", "a", "B", "x">>, <<>>}

InitRules ==
    /\ pc = "apply"
    /\ outcome = "none"
    /\ description \in Descriptions
    /\ rules \in SeqsUpTo(RulePool, MaxRules)
    /\ rule_out = Returned("", "", "")
    /\ input_name = <<>> /\ pdf_pages = Unreadable /\ page_i = 1
    /\ all_text = <<>> /\ start_year = 0 /\ end_year = 0
    /\ rules_file = RulesObject(<<>>) /\ text_i = 1 /\ line_i = 1
    /\ transactions = <<>>
    /\ ocr_words = <<>> /\ words = <<>> /\ word_i = 1 /\ rows_by_y = <<>>
    /\ col_bounds = <<>> /\ table_rows = <<>> /\ df_columns = <<>>
    /\ df_has_header = FALSE /\ df_rows = <<>>

ApplyRules ==
    /\ pc = "apply"
    /\ rule_out' = apply_rules(description, rules)
    /\ pc' = "done"
    /\ outcome' = IF rule_out'.exc = "none" THEN "ok" ELSE rule_out'.exc
    /\ UNCHANGED <<pdfVars, imageVars, description>>

NextRules == ApplyRules

SpecRules == InitRules /\ [][NextRules]_vars

-----------------------------------------------------------------------------
(* _convert_image: rows, columns and the header *)

RowTolerance == 15

Sentinel == 999999

Abs(n) == IF n < 0 THEN 0 - n ELSE n

\* list.sort(key=...): stable, keys compared as the pairs <<k1[i], k2[i]>>
StableSort(seq, k1, k2) ==
    LET n == Len(seq)
        first(a, b) == \/ k1[a] < k1[b]
                       \/ (k1[a] = k1[b] /\ k2[a] < k2[b])
                       \/ (k1[a] = k1[b] /\ k2[a] = k2[b] /\ a < b)
        rank(j) == 1 + Cardinality({k \in 1..n : first(k, j)})
    IN [p \in 1..n |-> seq[CHOOSE j \in 1..n : rank(j) = p]]

\* the loop over ocr_data["text"]: blank texts are dropped, the text is
\* stripped and `right` is added
RECURSIVE collect_words(_)
collect_words(ocr) ==
    IF ocr = <<>> THEN <<>>
    ELSE IF strip(Head(ocr).text) = <<>> THEN collect_words(Tail(ocr))
    ELSE <<[text |-> strip(Head(ocr).text),
            left |-> Head(ocr).left,
            top |-> Head(ocr).top,
            width |-> Head(ocr).width,
            right |-> Head(ocr).left + Head(ocr).width]>>
         \o collect_words(Tail(ocr))

\* sort_words with the sort left out
sort_words_Unsorted(ws) == ws

\* words.sort(key=lambda w: (w["top"], w["left"]))
sort_words(ws) ==
    StableSort(ws, [i \in 1..Len(ws) |-> ws[i].top],
               [i \in 1..Len(ws) |-> ws[i].left])

RECURSIVE SumTops(_)
SumTops(ws) == IF ws = <<>> THEN 0 ELSE Head(ws).top + SumTops(Tail(ws))

\* row_of leaving the anchor at the top of the row's first word
row_of_FirstTop(ws) == [avg_y |-> Head(ws).top, ws |-> ws]

\* a row holding the words ws: its avg_y is the floored mean of their tops
row_of(ws) == [avg_y |-> SumTops(ws) \div Len(ws), ws |-> ws]

\* fits: the rows within the tolerance of w; the first of them takes w,
\* and w starts a row of its own when there is none
place_into(rows, w, fits) ==
    IF fits = {}
    THEN Append(rows, [avg_y |-> w.top, ws |-> <<w>>])
    ELSE [rows EXCEPT ![Min(fits)] = row_of(Append(rows[Min(fits)].ws, w))]

\* place_word with a tolerance of 5
place_word_Narrow(rows, w) ==
    place_into(rows, w,
               {i \in 1..Len(rows) : Abs(w.top - rows[i].avg_y) <= 5})

\* one turn of `for w in words`
place_word(rows, w) ==
    place_into(rows, w,
               {i \in 1..Len(rows) : Abs(w.top - rows[i].avg_y) <= RowTolerance})

\* row[1].sort(key=lambda w: w["left"])
sort_row_words(row) ==
    [avg_y |-> row.avg_y,
     ws |-> StableSort(row.ws, [i \in 1..Len(row.ws) |-> row.ws[i].left],
                       [i \in 1..Len(row.ws) |-> 0])]

each_row_sorted(rows) == [i \in 1..Len(rows) |-> sort_row_words(rows[i])]

\* rows_by_y.sort(key=lambda r: r[0]), then every row's words by left
sort_rows(rows) ==
    each_row_sorted(StableSort(rows, [i \in 1..Len(rows) |-> rows[i].avg_y],
                               [i \in 1..Len(rows) |-> 0]))

\* column_bounds taking the next word's left edge as the right bound
column_bounds_NoMidpoint(hw) ==
    [ci \in 1..Len(hw) |->
        <<IF ci = 1 THEN 0 ELSE (hw[ci - 1].right + hw[ci].left) \div 2,
          IF ci = Len(hw) THEN Sentinel ELSE hw[ci + 1].left>>]

\* col_bounds: midpoints between neighbouring header words
column_bounds(hw) ==
    [ci \in 1..Len(hw) |->
        <<IF ci = 1 THEN 0 ELSE (hw[ci - 1].right + hw[ci].left) \div 2,
          IF ci = Len(hw) THEN Sentinel
          ELSE (hw[ci].right + hw[ci + 1].left) \div 2>>]

first_or(hits, default) == IF hits = {} THEN default ELSE Min(hits)

\* _get_col_index(x); columns are numbered from 1 here, from 0 in the code
get_col_index(bounds, x) ==
    first_or({ci \in 1..Len(bounds) : bounds[ci][1] <= x /\ x < bounds[ci][2]},
             Len(bounds))

\* cells[ci] gets the text, after a space when the cell holds text already
put_cell(cells, ci, text) ==
    [cells EXCEPT ![ci] = IF @ = <<>> THEN text ELSE @ \o <<" ">> \o text]

\* the loop `for w in row_words` from word k on
RECURSIVE fill_cells(_, _, _, _)
fill_cells(cells, ws, bounds, k) ==
    IF k > Len(ws) THEN cells
    ELSE fill_cells(put_cell(cells, get_col_index(bounds, ws[k].left), ws[k].text),
                    ws, bounds, k + 1)

\* " ".join(w["text"] for w in ws)
RECURSIVE join_texts(_)
join_texts(ws) ==
    IF ws = <<>> THEN <<>>
    ELSE IF Len(ws) = 1 THEN ws[1].text
    ELSE ws[1].text \o <<" ">> \o join_texts(Tail(ws))

\* the bounds kept for the header row: none when it has at most one word
bounds_for(rows) ==
    IF Len(rows[1].ws) <= 1 THEN <<>> ELSE column_bounds(rows[1].ws)

\* table_rows for the rows and the bounds of the header row
table_for(rows, bounds) ==
    IF bounds = <<>>
    THEN [i \in 1..Len(rows) |-> <<join_texts(rows[i].ws)>>]
    ELSE [i \in 1..Len(rows) |->
             fill_cells([c \in 1..Len(bounds) |-> <<>>], rows[i].ws, bounds, 1)]

\* looks_like_header testing the cell as it is
looks_like_header_NoStrip(first_row) ==
    \A c \in 1..Len(first_row) :
        first_row[c] # <<>> => ~isdigit(first_row[c])

\* all(not cell.replace(".", "").replace(",", "").replace("/", "").isdigit()
\*     for cell in first_row if cell)
looks_like_header(first_row) ==
    \A c \in 1..Len(first_row) :
        first_row[c] # <<>> =>
            ~isdigit(remove(remove(remove(first_row[c], "."), ","), "/"))

\* the rows of the clustering loop run to its end from word k on
RECURSIVE place_all(_, _, _)
place_all(rows, ws, k) ==
    IF k > Len(ws) THEN rows
    ELSE place_all(place_word(rows, ws[k]), ws, k + 1)

\* rows_by_y as the code leaves it for the OCR words given in this order
assemble_rows(ocr) ==
    sort_rows(place_all(<<>>, sort_words(collect_words(ocr)), 1))

-----------------------------------------------------------------------------
(* _convert_image: the inputs of the model and the state machine *)

OcrWord(t, l, tp, w) == [text |-> t, left |-> l, top |-> tp, width |-> w]

\* a wide word of letters and a narrow word of digits and punctuation
WordAb(l, tp) == OcrWord(<<"A", "b">>, l, tp, 80)

WordNum(l, tp) == OcrWord(<<"7", ".">>, l, tp, 10)

\* the words pytesseract may return: one word at each of two lefts and
\* three tops, a word far below them, a wide word lying over the first of
\* them, a word of punctuation only and an entry of blank text
WordPool ==
    {WordNum(0, 0), WordAb(30, 0), WordAb(0, 10), WordNum(30, 10),
     WordNum(0, 20), WordAb(30, 20), WordNum(30, 40),
     WordAb(0, 0), OcrWord(<<".">>, 0, 0, 10), OcrWord(<<" ">>, 0, 0, 0)}

NameImage == <<"s", "c", "a", "n", ".", "P", "N", "G">>

InitImage ==
    /\ pc = "dispatch"
    /\ outcome = "none"
    /\ input_name = NameImage
    /\ ocr_words \in SeqsUpTo(WordPool, MaxWords)
    /\ words = <<>> /\ word_i = 1 /\ rows_by_y = <<>>
    /\ col_bounds = <<>> /\ table_rows = <<>> /\ df_columns = <<>>
    /\ df_has_header = FALSE /\ df_rows = <<>>
    /\ pdf_pages = Unreadable /\ page_i = 1
    /\ all_text = <<>> /\ start_year = 0 /\ end_year = 0
    /\ rules_file = RulesObject(<<>>) /\ rules = <<>> /\ text_i = 1
    /\ line_i = 1 /\ transactions = <<>>
    /\ description = <<>> /\ rule_out = Returned("", "", "")

\* the words are collected and sorted; no word at all is an error
CollectWords ==
    /\ pc = "collect"
    /\ words' = sort_words(collect_words(ocr_words))
    /\ IF words' = <<>>
       THEN pc' = "done" /\ outcome' = "ConversionError"
       ELSE pc' = "place" /\ outcome' = outcome
    /\ UNCHANGED <<ocr_words, word_i, rows_by_y, col_bounds, table_rows,
                   df_columns, df_has_header, df_rows, pdfVars, ruleVars>>

\* one turn of `for w in words`
PlaceWord ==
    /\ pc = "place"
    /\ word_i <= Len(words)
    /\ rows_by_y' = place_word(rows_by_y, words[word_i])
    /\ word_i' = word_i + 1
    /\ UNCHANGED <<pc, outcome, ocr_words, words, col_bounds, table_rows,
                   df_columns, df_has_header, df_rows, pdfVars, ruleVars>>

\* after the loop: rows top to bottom, words left to right
SortRows ==
    /\ pc = "place"
    /\ word_i > Len(words)
    /\ rows_by_y' = sort_rows(rows_by_y)
    /\ pc' = "build"
    /\ UNCHANGED <<outcome, ocr_words, words, word_i, col_bounds, table_rows,
                   df_columns, df_has_header, df_rows, pdfVars, ruleVars>>

\* the column bounds of the header row and the cells of every row
BuildTable ==
    /\ pc = "build"
    /\ col_bounds' = bounds_for(rows_by_y)
    /\ table_rows' = table_for(rows_by_y, col_bounds')
    /\ pc' = "promote"
    /\ UNCHANGED <<outcome, ocr_words, words, word_i, rows_by_y, df_columns,
                   df_has_header, df_rows, pdfVars, ruleVars>>

\* the first row becomes the columns when it looks like a header
PromoteHeader ==
    /\ pc = "promote"
    /\ IF looks_like_header(table_rows[1])
       THEN /\ df_has_header' = TRUE
            /\ df_columns' = table_rows[1]
            /\ df_rows' = Tail(table_rows)
       ELSE /\ df_has_header' = FALSE
            /\ df_columns' = <<>>
            /\ df_rows' = table_rows
    /\ pc' = "done"
    /\ outcome' = "ok"
    /\ UNCHANGED <<ocr_words, words, word_i, rows_by_y, col_bounds,
                   table_rows, pdfVars, ruleVars>>

NextImage ==
    Dispatch \/ CollectWords \/ PlaceWord \/ SortRows \/ BuildTable
    \/ PromoteHeader

SpecImage == InitImage /\ [][NextImage]_vars

-----------------------------------------------------------------------------
(* Properties of the statement parser *)

\* the text line a row was read from
SrcLine(t) == split(pdf_pages.pages[t.src[1]], "\n")[t.src[2]]

\* <<page, line>> pairs in document order
Before(a, b) == a[1] < b[1] \/ (a[1] = b[1] /\ a[2] < b[2])

\* every <<page, line>> of the document
DocLines ==
    UNION {{<<pg, ln>> : ln \in 1..Len(split(pdf_pages.pages[pg], "\n"))} :
              pg \in {g \in 1..Len(pdf_pages.pages) : pdf_pages.pages[g] # <<>>}}

LineAt(x) == split(pdf_pages.pages[x[1]], "\n")[x[2]]

\* the amount the transaction pattern finds on a line carries a leading '-'
CreditMatch(m) == m.ok /\ m.g4[1] = "-"

CreditLine(line) == CreditMatch(txn_match(strip(line)))

\* C2: no row of the output comes from a line whose amount carries a
\* leading '-', and no row has a negative amount.
C2_NoCreditRows ==
    \A i \in 1..Len(transactions) :
        /\ ~CreditLine(SrcLine(transactions[i]))
        /\ transactions[i].amount >= 0

\* a conversion that ended well although the document holds a '-$' line
C2_Witness ==
    /\ pc = "done"
    /\ outcome = "ok"
    /\ \E x \in DocLines : CreditLine(LineAt(x))

\* the month a row's line starts with
LineMonth(t) == int(SubSeq(strip(SrcLine(t)), 1, 2))

\* C4: a row's year is start_year when the statement spans two years and the
\* line's month is October to December, and end_year in every other case;
\* with start_year = 2023 and end_year = 2024, month 12 gives 2023 and
\* months below 10 give 2024.
C4_YearResolution ==
    \A i \in 1..Len(transactions) :
        LET t == transactions[i]
        IN /\ (start_year # end_year /\ LineMonth(t) >= 10) => t.year = start_year
           /\ (start_year = end_year \/ LineMonth(t) < 10) => t.year = end_year
           /\ (start_year = 2023 /\ end_year = 2024 /\ LineMonth(t) = 12)
                 => t.year = 2023
           /\ (start_year = 2023 /\ end_year = 2024 /\ LineMonth(t) < 10)
                 => t.year = 2024

\* a statement spanning 2023-2024 with a December and a January purchase
C4_Witness ==
    /\ pc = "done"
    /\ start_year = 2023 /\ end_year = 2024
    /\ \E i, j \in 1..Len(transactions) :
          /\ LineMonth(transactions[i]) = 12 /\ transactions[i].year = 2023
          /\ LineMonth(transactions[j]) = 1 /\ transactions[j].year = 2024

\* C5: a conversion ends with its result or with ConversionError, never
\* with another exception.
C5_OnlyConversionError == outcome \in {"none", "ok", "ConversionError"}

AllSpaces(s, lo, hi) == lo <= hi /\ \A i \in lo..hi : s[i] \in Spaces

\* s[lo..hi] is an amount: optional '-', '$', digits and commas, '.', two digits
AmountShape(s, lo, hi) ==
    LET d == IF s[lo] = "-" THEN lo + 1 ELSE lo
    IN /\ hi - d >= 4
       /\ s[d] = "$"
       /\ \A i \in (d + 1)..(hi - 3) : s[i] \in Digits \cup {","}
       /\ s[hi - 2] = "."
       /\ s[hi - 1] \in Digits /\ s[hi] \in Digits

\* s[1..e] is MM/DD, whitespace, optionally MM/DD and whitespace, a
\* description of at least one character, whitespace, an amount.  (A post
\* date followed by whitespace also reads as the start of a description, so
\* the optional part adds no line to the ones described here.)
PatternUpTo(s, e) ==
    /\ DateAt(s, 1)
    /\ \E m \in 9..(e - 4) :
          /\ AmountShape(s, m, e)
          /\ \E q \in 8..(m - 1) :
                /\ AllSpaces(s, q, m - 1)
                /\ \E a \in 7..(q - 1) : AllSpaces(s, 6, a - 1)

\* the whole line is the pattern, the amount being the last thing on it
WholeLinePattern(s) == PatternUpTo(s, Len(s))

\* the line starts with the pattern, the amount ending at a word boundary
PrefixPattern(s) ==
    \E e \in 1..Len(s) :
        /\ PatternUpTo(s, e)
        /\ (e = Len(s) \/ s[e + 1] \notin WordChars)

\* C8 as stated: a line gives a row only if the whole stripped line is the
\* pattern, with nothing after the amount.
C8_WholeLineOnly ==
    \A i \in 1..Len(transactions) :
        WholeLinePattern(strip(SrcLine(transactions[i])))

\* C8 as amended: a line gives a row only if the stripped line starts with
\* the pattern and the amount ends at a word boundary; text after the amount
\* does not keep the line out.
C8_PrefixOnly ==
    \A i \in 1..Len(transactions) :
        PrefixPattern(strip(SrcLine(transactions[i])))

\* a row read from a line that goes on after the amount
C8_Witness ==
    \E i \in 1..Len(transactions) :
        /\ PrefixPattern(strip(SrcLine(transactions[i])))
        /\ ~WholeLinePattern(strip(SrcLine(transactions[i])))

\* the cells of a line split on runs of two or more spaces
RECURSIVE SplitCells(_)
SplitCells(s) ==
    LET gaps == {i \in 1..(Len(s) - 1) : s[i] = " " /\ s[i + 1] = " "}
    IN IF gaps = {} THEN <<s>>
       ELSE <<SubSeq(s, 1, Min(gaps) - 1)>>
            \o SplitCells(SubSeq(s, RunEnd(s, Min(gaps), {" "}), Len(s)))

RECURSIVE LineRows(_)
LineRows(lines) ==
    IF lines = <<>> THEN <<>>
    ELSE IF strip(Head(lines)) = <<>> THEN LineRows(Tail(lines))
    ELSE <<SplitCells(strip(Head(lines)))>> \o LineRows(Tail(lines))

RECURSIVE TextRows(_)
TextRows(texts) ==
    IF texts = <<>> THEN <<>>
    ELSE LineRows(split(Head(texts).text, "\n")) \o TextRows(Tail(texts))

\* the grid of the line-split fallback: rows in page order, padded with
\* empty cells to the widest row
FallbackGrid(texts) ==
    LET rows == TextRows(texts)
        width == Max({Len(rows[i]) : i \in 1..Len(rows)} \cup {0})
    IN [i \in 1..Len(rows) |->
           rows[i] \o [k \in 1..(width - Len(rows[i])) |-> <<>>]]

\* C9: a PDF whose pages yield text is converted to the headerless grid of
\* its lines split on runs of spaces, and does not end in an error.
C9_TextPdfBecomesGrid ==
    (pc = "done" /\ all_text # <<>> /\ outcome \in {"ok", "ConversionError"})
        => /\ outcome = "ok"
           /\ PdfColumns = <<>>
           /\ Len(transactions) = Len(FallbackGrid(all_text))

\* C10: the rows of the output are in document order: page by page, and
\* line by line inside a page; at the end they are exactly the lines that
\* give a row.
C10_DocumentOrder ==
    /\ \A i, j \in 1..Len(transactions) :
          i < j => Before(transactions[i].src, transactions[j].src)
    /\ (pc = "done" /\ outcome = "ok") =>
          {transactions[i].src : i \in 1..Len(transactions)}
             = {x \in DocLines :
                   parse_line(LineAt(x), start_year, end_year, rules, x).kind = "row"}

\* rows read from two pages, with a line in between that gives no row
C10_Witness ==
    /\ pc = "done"
    /\ outcome = "ok"
    /\ \E i \in 1..(Len(transactions) - 1) :
          transactions[i].src[1] < transactions[i + 1].src[1]
    /\ \E x \in DocLines : \A i \in 1..Len(transactions) : transactions[i].src # x

-----------------------------------------------------------------------------
(* Properties of the rule classifier *)

\* keyword kw occurs in desc, letters compared without regard to case
OccursIgnoringCase(kw, desc) ==
    \E off \in 0..(Len(desc) - Len(kw)) :
        \A j \in 1..Len(kw) : LowerChar(desc[off + j]) = LowerChar(kw[j])

\* the rules of rs that have a keyword occurring in desc
MatchingRules(desc, rs) ==
    {i \in 1..Len(rs) :
        \E k \in 1..Len(rs[i].keywords) : OccursIgnoringCase(rs[i].keywords[k], desc)}

WellFormed(rs) == \A i \in 1..Len(rs) : rs[i].has = RuleKeys

\* C3: the classifier returns the three fields of the first rule, in list
\* order, that has a keyword occurring in the description without regard to
\* case; three empty strings when no rule has one; a rule without keywords
\* is never the one returned.
C3_FirstRuleWins ==
    (pc = "done" /\ WellFormed(rules)) =>
        LET hits == MatchingRules(description, rules)
        IN /\ rule_out.exc = "none"
           /\ hits = {} => rule_out.val = <<"", "", "">>
           /\ hits # {} =>
                 /\ rule_out.val = <<rules[Min(hits)].type,
                                     rules[Min(hits)].hl_exp_category,
                                     rules[Min(hits)].exp_category>>
                 /\ rules[Min(hits)].keywords # <<>>

\* two rules with different categories both match, in a different letter
\* case than the description's, and the earlier one is returned
C3_Witness ==
    /\ pc = "done"
    /\ WellFormed(rules)
    /\ Cardinality(MatchingRules(description, rules)) = 2
    /\ rules[1].type # rules[2].type
    /\ rule_out.val[1] = rules[1].type
    /\ ~Contains(description, rules[1].keywords[Len(rules[1].keywords)])

-----------------------------------------------------------------------------
(* Properties of the column inferencer *)

\* the table has just been built from a header of two or more words
BoundsSet == pc = "promote" /\ Len(col_bounds) >= 2

\* the left coordinates probed: every one up to ProbeMax, and the last one
\* below the sentinel
Probes == (0..ProbeMax) \cup {Sentinel - 1}

\* the columns whose interval [left, right) holds x
ColumnsOf(x) ==
    {ci \in 1..Len(col_bounds) : col_bounds[ci][1] <= x /\ x < col_bounds[ci][2]}

Contiguous ==
    /\ col_bounds[1][1] = 0
    /\ col_bounds[Len(col_bounds)][2] = Sentinel
    /\ \A ci \in 1..(Len(col_bounds) - 1) : col_bounds[ci][2] = col_bounds[ci + 1][1]

\* the words of ws whose left lies in column ci and in no earlier column
RECURSIVE WordsOfColumn(_, _)
WordsOfColumn(ws, ci) ==
    IF ws = <<>> THEN <<>>
    ELSE IF ColumnsOf(Head(ws).left) # {} /\ Min(ColumnsOf(Head(ws).left)) = ci
    THEN <<Head(ws)>> \o WordsOfColumn(Tail(ws), ci)
    ELSE WordsOfColumn(Tail(ws), ci)

\* every row has one cell per header word, and the cell of a column is made
\* of the row's words that lie in that column, left to right
WordsInTheirColumns ==
    \A r \in 1..Len(rows_by_y) :
        /\ Len(table_rows[r]) = Len(col_bounds)
        /\ \A ci \in 1..Len(col_bounds) :
              table_rows[r][ci] = join_texts(WordsOfColumn(rows_by_y[r].ws, ci))

\* no header word reaches past the left edge of the next one
HeaderApart ==
    \A ci \in 1..(Len(rows_by_y[1].ws) - 1) :
        rows_by_y[1].ws[ci].right <= rows_by_y[1].ws[ci + 1].left

\* C1 as stated: the bounds of a header of two or more words are contiguous
\* from 0 to the sentinel, every left coordinate lies in exactly one
\* interval, and every word of every row is in exactly one column.
C1_ExactlyOneInterval ==
    BoundsSet =>
        /\ Contiguous
        /\ \A x \in Probes : Cardinality(ColumnsOf(x)) = 1
        /\ WordsInTheirColumns

\* C1 as amended: the bounds are contiguous from 0 to the sentinel, every
\* left coordinate lies in at least one interval and is given the first
\* interval that holds it, so every word of every row is in exactly one
\* column; the interval is the only one that holds it when no header word
\* reaches past the left edge of the next.
C1_FirstInterval ==
    BoundsSet =>
        /\ Contiguous
        /\ \A x \in Probes :
              /\ ColumnsOf(x) # {}
              /\ get_col_index(col_bounds, x) = Min(ColumnsOf(x))
              /\ HeaderApart => Cardinality(ColumnsOf(x)) = 1
        /\ WordsInTheirColumns

\* a header of separate words above a second row with a word in column 2
C1_Witness ==
    /\ BoundsSet
    /\ HeaderApart
    /\ Len(rows_by_y) >= 2
    /\ table_rows[2][2] # <<>>

-----------------------------------------------------------------------------
(* Properties of the table builder *)

Punctuation == {".", ",", "/"}

\* the cell is digits once '.', ',' and '/' are taken out of it
PurelyNumeric(cell) ==
    /\ \E i \in 1..Len(cell) : cell[i] \in Digits
    /\ \A i \in 1..Len(cell) : cell[i] \in Digits \cup Punctuation

NumericCells(row) ==
    {c \in 1..Len(row) : row[c] # <<>> /\ PurelyNumeric(row[c])}

TextCells(row) ==
    {c \in 1..Len(row) : row[c] # <<>> /\ ~PurelyNumeric(row[c])}

\* C6: the first row becomes the headers, and leaves the data rows, exactly
\* when none of its non-empty cells is purely numeric; otherwise there are
\* no headers and every row is kept.  So a first row of numeric cells only
\* gives no headers and a first row of non-numeric cells only gives headers.
C6_HeaderPromotion ==
    (pc = "done" /\ outcome = "ok" /\ table_rows # <<>>) =>
        /\ df_has_header <=> NumericCells(table_rows[1]) = {}
        /\ df_has_header => df_columns = table_rows[1] /\ df_rows = Tail(table_rows)
        /\ ~df_has_header => df_columns = <<>> /\ df_rows = table_rows
        /\ (TextCells(table_rows[1]) = {} /\ NumericCells(table_rows[1]) # {})
              => ~df_has_header
        /\ NumericCells(table_rows[1]) = {} => df_has_header

\* a first row with a numeric and a non-numeric cell: no headers, rows kept
C6_Witness ==
    /\ pc = "done"
    /\ outcome = "ok"
    /\ Len(table_rows) >= 2
    /\ NumericCells(table_rows[1]) # {}
    /\ TextCells(table_rows[1]) # {}
    /\ ~df_has_header
    /\ df_rows = table_rows

-----------------------------------------------------------------------------
(* Properties of the row assembler *)

\* the row assembler has just finished
RowsFinal == pc = "build" /\ rows_by_y # <<>>

\* the orders of n things, for every n up to MaxWords
AllOrders ==
    [n \in 0..MaxWords |->
        {f \in [1..n -> 1..n] : \A i, j \in 1..n : i # j => f[i] # f[j]}]

Orders(n) == AllOrders[n]

\* the OCR words handed over in the order f
Reordered(f) == [i \in 1..Len(ocr_words) |-> ocr_words[f[i]]]

\* a row as its anchor, the set of its words and the positions of its words
\* in their order
RowShape(row) ==
    [avg_y |-> row.avg_y,
     members |-> {row.ws[k] : k \in 1..Len(row.ws)},
     positions |-> [k \in 1..Len(row.ws) |-> <<row.ws[k].left, row.ws[k].top>>]]

Shape(rows) == [i \in 1..Len(rows) |-> RowShape(rows[i])]

\* no two words at the same (top, left)
DistinctPositions ==
    \A i, j \in 1..Len(words) :
        i # j => <<words[i].top, words[i].left>> # <<words[j].top, words[j].left>>

\* rows are rows_by_y, or two words share a position and rows have the
\* anchors, members and word positions of rows_by_y
SameUpToTies(rows) ==
    \/ rows = rows_by_y
    \/ ~DistinctPositions /\ Shape(rows) = Shape(rows_by_y)

\* C7 as stated: the rows, their order and the order of the words inside
\* each row are the same for every order in which the same words are given.
C7_AnyOrderSameRows ==
    RowsFinal =>
        \A f \in Orders(Len(ocr_words)) :
            assemble_rows(Reordered(f)) = rows_by_y

\* C7 as amended: for every order in which the same words are given, the
\* rows have the same anchors, the same members and the same sequence of
\* word positions, in the same row order; the rows are identical when no
\* two words share the same (top, left) (words that do keep their input
\* order).
C7_SameRowsUpToTies ==
    RowsFinal =>
        \A f \in Orders(Len(ocr_words)) : SameUpToTies(assemble_rows(Reordered(f)))

\* three words at distinct positions, given out of order, in two rows
C7_Witness ==
    /\ RowsFinal
    /\ DistinctPositions
    /\ Len(words) = 3
    /\ collect_words(ocr_words) # words
    /\ Len(rows_by_y) = 2

-----------------------------------------------------------------------------
(* Properties of the greedy pass *)

\* ws is in ascending (top, left) order
Ascending(ws) ==
    \A i \in 1..(Len(ws) - 1) :
        \/ ws[i].top < ws[i + 1].top
        \/ ws[i].top = ws[i + 1].top /\ ws[i].left <= ws[i + 1].left

\* the mean of the tops of ws, cut towards zero
TruncatedSum(sum, n) == IF sum >= 0 THEN sum \div n ELSE 0 - ((0 - sum) \div n)

TruncatedMean(ws) == TruncatedSum(SumTops(ws), Len(ws))

\* row k of rows is within 15 of w's top and no earlier row is
FirstWithin(rows, w, k) ==
    /\ Abs(w.top - rows[k].avg_y) <= 15
    /\ \A j \in 1..(k - 1) : Abs(w.top - rows[j].avg_y) > 15

\* after is before with w added to the end of row k, whose anchor is the
\* truncated mean of the tops of all its words
Joined(before, after, w, k) ==
    /\ Len(after) = Len(before)
    /\ \A j \in 1..Len(before) : j # k => after[j] = before[j]
    /\ after[k].ws = Append(before[k].ws, w)
    /\ after[k].avg_y = TruncatedMean(after[k].ws)

\* after is before with a new last row made of w and anchored at its top
Started(before, after, w) ==
    after = Append(before, [avg_y |-> w.top, ws |-> <<w>>])

\* w went where the greedy pass puts it
GreedyPlaced(before, after, w) ==
    IF \E k \in 1..Len(before) : FirstWithin(before, w, k)
    THEN \E k \in 1..Len(before) :
            FirstWithin(before, w, k) /\ Joined(before, after, w, k)
    ELSE Started(before, after, w)

\* the words of all the rows, row after row
RECURSIVE RowWords(_)
RowWords(rows) ==
    IF rows = <<>> THEN <<>> ELSE Head(rows).ws \o RowWords(Tail(rows))

Count(v, ws) == Cardinality({i \in 1..Len(ws) : ws[i] = v})

\* as and bs hold the same words the same number of times
SameWords(as, bs) ==
    /\ Len(as) = Len(bs)
    /\ \A i \in 1..Len(as) : Count(as[i], as) = Count(as[i], bs)

\* the words the loop has placed so far
PlacedWords == SubSeq(words, 1, word_i - 1)

\* the words are in ascending order and the rows hold every word placed so
\* far once
EachWordInOneRow ==
    pc \in {"place", "build", "promote", "done"} =>
        /\ Ascending(words)
        /\ SameWords(RowWords(rows_by_y), PlacedWords)

\* a turn of the loop takes the next word and places it greedily
GreedyTurn ==
    (pc = "place" /\ pc' = "place") =>
        /\ word_i' = word_i + 1
        /\ words' = words
        /\ GreedyPlaced(rows_by_y, rows_by_y', words[word_i])

\* C11: the words are processed in ascending (top, left) order; each word
\* joins the first row, in creation order, whose anchor is within 15 of the
\* word's top, and that row's anchor becomes the truncated mean of the tops
\* of all its words; a word that fits no row starts a new row anchored at
\* its own top; every word ends in exactly one row.
C11_GreedyPass == []EachWordInOneRow /\ [][GreedyTurn]_vars

\* the third word joined a row at exactly 15 from an anchor that the second
\* word had moved
C11_Witness ==
    /\ pc = "place"
    /\ word_i = 4
    /\ Len(rows_by_y) = 1
    /\ words[1].top = 0 /\ words[2].top = 10 /\ words[3].top = 20
    /\ rows_by_y[1].avg_y = 10

-----------------------------------------------------------------------------
(* Properties of the row anchors *)

\* the anchors grow in creation order, and any two are more than 15 apart
AnchorsApart(rows) ==
    \A i, j \in 1..Len(rows) : i < j => rows[j].avg_y - rows[i].avg_y > 15

AnchorsGrow ==
    pc \in {"place", "build", "promote", "done"} => AnchorsApart(rows_by_y)

\* a turn of the loop leaves every row but the last created as it was
OnlyLastRowAccepts ==
    (pc = "place" /\ pc' = "place") =>
        \A j \in 1..(Len(rows_by_y) - 1) : rows_by_y'[j] = rows_by_y[j]

\* the sort of the rows leaves each row, the first one too, at its place
\* with its anchor and its words
SortKeepsCreationOrder ==
    (pc = "place" /\ pc' = "build") =>
        /\ Len(rows_by_y') = Len(rows_by_y)
        /\ \A j \in 1..Len(rows_by_y) :
              /\ rows_by_y'[j].avg_y = rows_by_y[j].avg_y
              /\ SameWords(rows_by_y'[j].ws, rows_by_y[j].ws)

\* C12: the anchors of the rows are strictly increasing in creation order
\* and any two are more than 15 apart; only the row created last accepts a
\* word; the sort of the rows by anchor keeps their creation order, so the
\* header row is the first row created.
C12_AnchorsIncrease ==
    /\ []AnchorsGrow
    /\ [][OnlyLastRowAccepts /\ SortKeepsCreationOrder]_vars

\* three rows after the sort, each holding the word that created it
C12_Witness ==
    /\ pc = "build"
    /\ Len(rows_by_y) = 3
    /\ \A j \in 1..3 : rows_by_y[j].ws = <<words[j]>>

=============================================================================
